---- MODULE Spec2Model ----
(***************************************************************************)
(* Lighting / visibility core of llm-game (src/src/light.rs,               *)
(* src/src/world.rs, src/src/player.rs, src/src/main.rs).                  *)
(*                                                                         *)
(* Number representation (TLA+ has no reals):                              *)
(*   positions        world units, raw positions in 1/100 world unit       *)
(*   brightness       1/10000 (0.93 is 9300, the 0.001 tolerance is 10)    *)
(*   attenuations     1/1000                                               *)
(*   spread           1/10000 (tan 45 deg is 10000)                        *)
(*   delta time       ticks of 1/(10 * MOVE_SPEED) second, so that         *)
(*                    speed * dt is a whole number of 1/10 world unit      *)
(* powf and the sRGB transfer function are tabulated at 21 knots from the  *)
(* formulas of the source and interpolated linearly between the knots.     *)
(*                                                                         *)
(* The grid of the program is 600 x 600 tiles with a view distance of 72   *)
(* (world.rs) and 124 (light.rs) tiles; the model keeps the code and       *)
(* scales those sizes down (GridChunks, CHUNK_SIZE, *_MAX_DISTANCE,        *)
(* RENDER_PADDING_TILES).                                                  *)
(***************************************************************************)
EXTENDS Integers, Sequences, FiniteSets, TLC

(* ------------------------------ bounds --------------------------------- *)
\* chunks per grid side: WIDTH = HEIGHT = GridChunks * CHUNK_SIZE (600 = 24 * 25)
GridChunks == 2
\* frames (ticks) a behaviour runs
MaxFrames == 2
\* view distance of world.rs (72 in the program) and light.rs (124), in tiles
World_MAX_DISTANCE == 1
Light_MAX_DISTANCE == 2
\* padding ring around the inner window (8 in the program)
RENDER_PADDING_TILES == 1
\* tiles per chunk side (25 in the program)
CHUNK_SIZE == 4
\* half width of the square of tiles the cone predicate is tabulated on
ConeSpan == 10

(* ------------------------- program constants --------------------------- *)
WORLD_TILE_SIZE == 4
MOVE_SPEED == 140
\* ticks of delta time in a second; lerp_alpha is in 1/TicksPerSecond
TicksPerSecond == 10 * MOVE_SPEED
PIXEL_LEVELS == 6
WIDTH == GridChunks * CHUNK_SIZE
HEIGHT == GridChunks * CHUNK_SIZE

Facings == {"Up", "UpRight", "Right", "DownRight", "Down", "DownLeft", "Left", "UpLeft"}

(* ------------------------------ helpers -------------------------------- *)
Abs(n) == IF n < 0 THEN -n ELSE n
Min(a, b) == IF a < b THEN a ELSE b
Max(a, b) == IF a > b THEN a ELSE b
Clamp(v, lo, hi) == IF v < lo THEN lo ELSE IF v > hi THEN hi ELSE v
\* n / d rounded to the nearest integer, halves away from zero (d > 0)
RoundDiv(n, d) == IF n >= 0 THEN (2 * n + d) \div (2 * d) ELSE -((2 * (-n) + d) \div (2 * d))
\* f32::rem_euclid
RemEuclid(a, m) == a % m

\* largest r in lo..hi with r * r <= n
RECURSIVE ISqrtIn(_, _, _)
ISqrtIn(n, lo, hi) ==
    IF lo >= hi THEN lo
    ELSE LET mid == (lo + hi + 1) \div 2
         IN  IF mid * mid <= n THEN ISqrtIn(n, mid, hi) ELSE ISqrtIn(n, lo, mid - 1)

\* f32::powf(p) on [0, 1] in 1/1000, tabulated every 0.05
Pow105 == <<0, 43, 89, 136, 185, 233, 282, 332, 382, 432, 483, 534, 585, 636, 688, 739, 791, 843, 895, 948, 1000>>
Pow115 == <<0, 32, 71, 113, 157, 203, 250, 299, 349, 399, 451, 503, 556, 609, 664, 718, 774, 830, 886, 943, 1000>>
Pow070 == <<0, 123, 200, 265, 324, 379, 431, 480, 527, 572, 616, 658, 699, 740, 779, 818, 855, 892, 929, 965, 1000>>
Pow135 == <<0, 18, 45, 77, 114, 154, 197, 242, 290, 340, 392, 446, 502, 559, 618, 678, 740, 803, 867, 933, 1000>>
Powf(table, x) ==
    LET i == x \div 50
        r == x % 50
    IN  IF i >= 20 THEN table[21]
        ELSE table[i + 1] + ((table[i + 2] - table[i + 1]) * r) \div 50

\* Color::srgb(d, d, d).to_linear(): the sRGB transfer function, 1/10000,
\* tabulated every 0.05
LinearKnots == <<0, 39, 100, 196, 331, 509, 732, 1005, 1329, 1706, 2140, 2633, 3185, 3801, 4480, 5225, 6038, 6921, 7874, 8900, 10000>>
to_linear(d) ==
    LET i == d \div 500
        r == d % 500
    IN  IF i >= 20 THEN LinearKnots[21]
        ELSE LinearKnots[i + 1] + ((LinearKnots[i + 2] - LinearKnots[i + 1]) * r) \div 500

(* --------------------------- cone evaluator ---------------------------- *)
facing_dir(facing) ==
    CASE facing = "Up" -> <<0, 1>>
      [] facing = "UpRight" -> <<1, 1>>
      [] facing = "Right" -> <<1, 0>>
      [] facing = "DownRight" -> <<1, -1>>
      [] facing = "Down" -> <<0, -1>>
      [] facing = "DownLeft" -> <<-1, -1>>
      [] facing = "Left" -> <<-1, 0>>
      [] facing = "UpLeft" -> <<-1, 1>>

\* the range test of the cone: forward_steps > range
BeyondRange_strict(forwardQ, forward_scale, range) ==
    forwardQ >= range * WORLD_TILE_SIZE * forward_scale
BeyondRange(forwardQ, forward_scale, range) ==
    forwardQ > range * WORLD_TILE_SIZE * forward_scale

\* the edge test of the cone: |side| <= forward_steps * spread
WithinSpread_strict(sideQ, forwardQ, forward_scale, spread) ==
    Abs(sideQ) * forward_scale * 10000 < forwardQ * spread
WithinSpread(sideQ, forwardQ, forward_scale, spread) ==
    Abs(sideQ) * forward_scale * 10000 <= forwardQ * spread

\* the behind-the-observer test: forward <= 0
NotForward_strict(forwardQ) == forwardQ < 0
NotForward(forwardQ) == forwardQ <= 0

\* tile_center and player_pos in world units; delta = (q / WORLD_TILE_SIZE),
\* so forwardQ and sideQ are forward and side in 1/WORLD_TILE_SIZE tile
is_visible_in_cone(tile_center, player_pos, facing, range, spread) ==
    LET qx == tile_center[1] - player_pos[1]
        qy == tile_center[2] - player_pos[2]
        dir == facing_dir(facing)
        forwardQ == qx * dir[1] + qy * dir[2]
        forward_scale == Max(Abs(dir[1]) + Abs(dir[2]), 1)
        sideQ == qx * (-dir[2]) + qy * dir[1]
    IN  IF NotForward(forwardQ) THEN FALSE
        ELSE IF BeyondRange(forwardQ, forward_scale, range) THEN FALSE
        ELSE WithinSpread(sideQ, forwardQ, forward_scale, spread)

\* centre of tile (x, y) in world units
TileCenter(x, y) ==
    <<x * WORLD_TILE_SIZE + WORLD_TILE_SIZE \div 2, y * WORLD_TILE_SIZE + WORLD_TILE_SIZE \div 2>>

(* ----------------------- the two lighting passes ------------------------ *)
\* The constants of light.rs::update_visibility and world.rs::update_visibility
\* (the two functions are the same code with different constants).
Light_spread == 17321
Light_max_brightness == 9300
Light_smooth_speed == 60
Light_dither_fifths == 4
World_spread == 10000
World_max_brightness == 8500
World_smooth_speed == 48
World_dither_fifths == 3
LIGHT_SNAP == 1
hidden_brightness == 0

LightCfg ==
    [name |-> "light", range |-> Light_MAX_DISTANCE, spread |-> Light_spread,
     max_brightness |-> Light_max_brightness, curve |-> Pow070,
     smooth_speed |-> Light_smooth_speed, dither |-> Light_dither_fifths]
WorldCfg ==
    [name |-> "world", range |-> World_MAX_DISTANCE, spread |-> World_spread,
     max_brightness |-> World_max_brightness, curve |-> Pow135,
     smooth_speed |-> World_smooth_speed, dither |-> World_dither_fifths]
CfgOf(name) == IF name = "light" THEN LightCfg ELSE WorldCfg
Passes == {"world", "light"}

Tiles == (0 .. WIDTH - 1) \X (0 .. HEIGHT - 1)

VARIABLES
    pos,        \* Transform.translation of the player, <<x, y>> in 1/100 world unit
    facing,     \* PlayerState.facing
    observers,  \* number of entities the Query<.., With<Player>> matches
    dt,         \* Time::delta_secs of the frame, in ticks of 1/TicksPerSecond s
    pc,         \* schedule of the frame that runs next: "update" or "post"
    done,       \* the PostUpdate systems that ran in this frame
    order,      \* the PostUpdate system the schedule runs first
    frame,      \* frames started
    walls,      \* WorldGrid.walls
    field,      \* WorldGrid.field (the visible mask)
    brightness, \* WorldGrid.brightness
    chunks,     \* WorldChunks and the colour attribute of each chunk mesh
    last,       \* history: what the pass that ran last did
    writers,    \* history: the passes that wrote the grid in this frame
    skipped,    \* history: some pass returned at the observer query
    tick,       \* history: the brightness at the start of the frame, whether the
                \* frame repeats the observer state and delta time of the frame before,
                \* and the position before and after the Update schedule of the frame
    cone,       \* inputs and result of a stand-alone call of is_visible_in_cone
    call        \* inputs and results of a stand-alone call of one of the other
                \* functions of the lighting pass

vars == <<pos, facing, observers, dt, pc, done, order, frame, walls, field,
          brightness, chunks, last, writers, skipped, tick, cone, call>>

(* ------------------------------ Grid Store ----------------------------- *)
vector_field == [t \in Tiles |-> FALSE]
brightness_field == [t \in Tiles |-> 0]
walls_field == [t \in Tiles |-> t[1] = 0 \/ t[2] = 0 \/ t[1] = WIDTH - 1 \/ t[2] = HEIGHT - 1]
is_wall_tile(w, x, y) == w[<<x, y>>]
in_bounds(x, y) == x >= 0 /\ y >= 0 /\ x < WIDTH /\ y < HEIGHT
set_visible(f, x, y, visible) ==
    IF in_bounds(x, y) THEN [f EXCEPT ![<<x, y>>] = visible] ELSE f

(* ---------------------------- Chunk Partition -------------------------- *)
Color(display) == <<to_linear(display), to_linear(display), to_linear(display), 10000>>
WallColor == Color(6000)
BLACK == Color(0)

\* walls_field for a grid of width x height tiles: true on the border
walls_field_in(width, height) ==
    [t \in (0 .. width - 1) \X (0 .. height - 1) |->
        t[1] = 0 \/ t[2] = 0 \/ t[1] = width - 1 \/ t[2] = height - 1]

\* the colour attribute spawn_chunks builds for chunk (chunk_x, chunk_y) of a
\* width x height grid cut into chunks of size x size tiles: four slots per
\* tile, rows of chunk_w tiles
ChunkColorsIn(width, height, size, w, chunk_x, chunk_y) ==
    LET start_x == chunk_x * size
        start_y == chunk_y * size
        end_x == Min(start_x + size, width)
        end_y == Min(start_y + size, height)
        chunk_w == end_x - start_x
        chunk_h == end_y - start_y
    IN  [i \in 1 .. chunk_w * chunk_h * 4 |->
            LET tile == (i - 1) \div 4
                local_x == tile % chunk_w
                local_y == tile \div chunk_w
            IN  IF is_wall_tile(w, start_x + local_x, start_y + local_y)
                THEN WallColor ELSE BLACK]

\* WorldChunks after spawn_chunks; loaded[k] tells what Assets<Mesh> holds for
\* handle k: "ok" (a mesh with a Float32x4 colour attribute), "no_mesh" or
\* "no_colors"
spawn_chunks_in(width, height, size, w) ==
    LET cols == (width + size - 1) \div size
        rows == (height + size - 1) \div size
    IN  [cols |-> cols, rows |-> rows,
         meshes |-> [k \in 1 .. cols * rows |->
                        ChunkColorsIn(width, height, size, w, (k - 1) % cols, (k - 1) \div cols)],
         loaded |-> [k \in 1 .. cols * rows |-> "ok"]]

\* WorldChunks as WorldPlugin inserts it, before spawn_chunks has run
WorldChunks_default == [cols |-> 0, rows |-> 0, meshes |-> <<>>, loaded |-> <<>>]

ChunkColors(w, chunk_x, chunk_y) == ChunkColorsIn(WIDTH, HEIGHT, CHUNK_SIZE, w, chunk_x, chunk_y)
spawn_chunks(w) == spawn_chunks_in(WIDTH, HEIGHT, CHUNK_SIZE, w)

\* slot 0 of tile (x, y) in its chunk's colour attribute (0-based, as in the code)
SlotBaseIn(size, x, y) == ((y % size) * size + (x % size)) * 4
ChunkIndexIn(size, c, x, y) == (y \div size) * c.cols + (x \div size)
SlotBase(x, y) == SlotBaseIn(CHUNK_SIZE, x, y)
ChunkIndex(c, x, y) == ChunkIndexIn(CHUNK_SIZE, c, x, y)

\* meshes.get_mut(handle) and attribute_mut(ATTRIBUTE_COLOR) both succeed
chunk_loaded_any(c, index) == TRUE
chunk_loaded(c, index) == c.loaded[index + 1] = "ok"

set_chunk_tile_color_in(size, c, x, y, color) ==
    LET index == ChunkIndexIn(size, c, x, y)
        base == SlotBaseIn(size, x, y)
    IN  IF index >= Len(c.meshes) THEN c
        ELSE IF ~chunk_loaded(c, index) THEN c
        ELSE IF base + 3 >= Len(c.meshes[index + 1]) THEN c
        ELSE [c EXCEPT !.meshes[index + 1] =
                [i \in 1 .. Len(c.meshes[index + 1]) |->
                    IF i - 1 \in base .. base + 3 THEN color ELSE c.meshes[index + 1][i]]]

set_chunk_tile_color(c, x, y, color) == set_chunk_tile_color_in(CHUNK_SIZE, c, x, y, color)

\* the colour stored in slot 0 of tile (x, y), "none" when the tile has no slots
StoredColor(c, x, y) ==
    LET index == ChunkIndex(c, x, y)
        base == SlotBase(x, y)
    IN  IF index >= Len(c.meshes) THEN "none"
        ELSE IF base + 3 >= Len(c.meshes[index + 1]) THEN "none"
        ELSE c.meshes[index + 1][base + 1]

(* ----------------------- Brightness Target Function -------------------- *)
\* floor(n * 10^digits / d) for 0 <= n < d, one decimal digit at a time so that
\* no intermediate product leaves the 32-bit integers
RECURSIVE ScaledQuot(_, _, _)
ScaledQuot(n, d, digits) ==
    IF digits = 0 THEN 0
    ELSE ((n * 10) \div d) * (10 ^ (digits - 1)) + ScaledQuot((n * 10) % d, d, digits - 1)

\* (1.0 - t).clamp(0.0, 1.0), the argument of the brightness curve
falloff_arg_direct(t) == Clamp(t, 0, 1000)
falloff_arg(t) == Clamp(1000 - t, 0, 1000)

\* max_brightness * falloff for a visible tile; q = tile_center - light_pos
target_brightness(cfg, tile_center, light_pos, f) ==
    LET qx == tile_center[1] - light_pos[1]
        qy == tile_center[2] - light_pos[2]
        dist2 == qx * qx + qy * qy
        range2 == (cfg.range * WORLD_TILE_SIZE) * (cfg.range * WORLD_TILE_SIZE)
        \* (distance / range).clamp(0, 1)
        ratio == IF dist2 >= range2 THEN 1000
                 ELSE ISqrtIn(ScaledQuot(dist2, range2, 6), 0, 1000)
        t_distance == Powf(Pow105, ratio)
        dir == facing_dir(f)
        forwardQ == qx * dir[1] + qy * dir[2]
        forward_scale == Max(Abs(dir[1]) + Abs(dir[2]), 1)
        sideQ == qx * (-dir[2]) + qy * dir[1]
        \* side.abs() / side_denom with side_denom = |forward_steps * spread|.max(0.0001),
        \* numerator and denominator both times WORLD_TILE_SIZE * forward_scale * 10000
        side_num == Abs(sideQ) * forward_scale * 10000
        side_denom == Max(Abs(forwardQ * cfg.spread), WORLD_TILE_SIZE * forward_scale)
        side_clamped == IF side_num >= side_denom THEN 1000
                        ELSE ScaledQuot(side_num, side_denom, 3)
        side_ratio == Powf(Pow115, side_clamped)
        t == Clamp(Max(t_distance, side_ratio), 0, 1000)
        falloff == Powf(cfg.curve, falloff_arg(t))
    IN  RoundDiv(cfg.max_brightness * falloff, 1000)

(* --------------------------- Temporal Smoother ------------------------- *)
\* (smooth_speed * time.delta_secs()).clamp(0.0, 1.0), in 1/TicksPerSecond
lerp_alpha_unclamped(smooth_speed, delta) == smooth_speed * delta
lerp_alpha(smooth_speed, delta) == Clamp(smooth_speed * delta, 0, TicksPerSecond)

\* next = current + (target_brightness - current) * lerp_alpha
lerp(current, target, alpha) ==
    current + RoundDiv((target - current) * alpha, TicksPerSecond)

\* (next - current).abs() > 0.001
exceeds_tolerance_always(next, current) == TRUE
exceeds_tolerance(next, current) == Abs(next - current) > 10

(* ---------------------------- Dither/Quantizer ------------------------- *)
BAYER == <<0, 8, 2, 10, 12, 4, 14, 6, 3, 11, 1, 9, 15, 7, 13, 5>>
\* idx = (x & 3) + ((y & 3) << 2)
bayer_index(x, y) == (x % 4) + ((y % 4) * 4)
\* sixteenths
bayer_4x4(x, y) == BAYER[bayer_index(x, y) + 1]

\* (x - player_tile_x).rem_euclid(4): the dither phase of a tile coordinate
dither_phase_world(x, ptx) == RemEuclid(x, 4)
dither_phase(x, ptx) == RemEuclid(x - ptx, 4)

\* display = max_brightness * stepped.clamp(0, 1)
quantized_display_unstepped(cfg, next, x, y, ptx, pty) ==
    IF cfg.max_brightness > 0 THEN Clamp(next, 0, cfg.max_brightness) ELSE 0
quantized_display(cfg, next, x, y, ptx, pty) ==
    LET normalized == IF cfg.max_brightness > 0
                      THEN Clamp(next, 0, cfg.max_brightness) ELSE 0
        dx == dither_phase(x, ptx)
        dy == dither_phase(y, pty)
        \* floor(normalized * PIXEL_LEVELS + bayer / 16 * dither / 5)
        stepped == (normalized * PIXEL_LEVELS * 80 + bayer_4x4(dx, dy) * cfg.dither * cfg.max_brightness)
                       \div (80 * cfg.max_brightness)
    IN  (cfg.max_brightness * Clamp(stepped, 0, PIXEL_LEVELS)) \div PIXEL_LEVELS

quantized_color(cfg, next, x, y, ptx, pty) == Color(quantized_display(cfg, next, x, y, ptx, pty))

(* --------------------------- Bounded Scan Driver ----------------------- *)
\* (raw_pos / LIGHT_SNAP).round() * LIGHT_SNAP, in world units
light_pos_of(raw) ==
    <<RoundDiv(raw[1], 100 * LIGHT_SNAP) * LIGHT_SNAP, RoundDiv(raw[2], 100 * LIGHT_SNAP) * LIGHT_SNAP>>
player_tile_of(light_pos) ==
    <<light_pos[1] \div WORLD_TILE_SIZE, light_pos[2] \div WORLD_TILE_SIZE>>

inner_bound(cfg) == cfg.range + 2
outer_bound_wide(cfg) == inner_bound(cfg) + RENDER_PADDING_TILES + 1
outer_bound(cfg) == inner_bound(cfg) + RENDER_PADDING_TILES

\* the scan window: min_x ..= max_x, min_y ..= max_y
window(cfg, pt) ==
    [min_x |-> Max(pt[1] - outer_bound(cfg), 0),
     max_x |-> Min(pt[1] + outer_bound(cfg), WIDTH - 1),
     min_y |-> Max(pt[2] - outer_bound(cfg), 0),
     max_y |-> Min(pt[2] + outer_bound(cfg), HEIGHT - 1)]

in_inner_any(cfg, pt, x, y) == TRUE
in_inner(cfg, pt, x, y) ==
    /\ x >= pt[1] - inner_bound(cfg)
    /\ x <= pt[1] + inner_bound(cfg)
    /\ y >= pt[2] - inner_bound(cfg)
    /\ y <= pt[2] + inner_bound(cfg)

tile_visible(cfg, pt, lp, f, x, y) ==
    IF in_inner(cfg, pt, x, y)
    THEN is_visible_in_cone(TileCenter(x, y), lp, f, cfg.range, cfg.spread)
    ELSE FALSE

\* the tiles the loops visit and do not skip as walls
scan_tiles_with_walls(cfg, w, pt) ==
    (window(cfg, pt).min_x .. window(cfg, pt).max_x)
        \X (window(cfg, pt).min_y .. window(cfg, pt).max_y)
scan_tiles(cfg, w, pt) ==
    {t \in (window(cfg, pt).min_x .. window(cfg, pt).max_x)
              \X (window(cfg, pt).min_y .. window(cfg, pt).max_y) : ~is_wall_tile(w, t[1], t[2])}

\* The tile whose set_chunk_tile_color call writes slot i of mesh k (both
\* 1-based): the inverse of ChunkIndex and SlotBase. Different tiles address
\* different slots, so the calls of one pass commute.
slot_tile(c, k, i) ==
    <<((k - 1) % c.cols) * CHUNK_SIZE + (((i - 1) \div 4) % CHUNK_SIZE),
      ((k - 1) \div c.cols) * CHUNK_SIZE + (((i - 1) \div 4) \div CHUNK_SIZE)>>

\* set_chunk_tile_color(.., x, y, colors[<<x, y>>]) for every tile of DOMAIN colors
write_colors(c, colors) ==
    [c EXCEPT !.meshes =
        [k \in 1 .. Len(c.meshes) |->
            [i \in 1 .. Len(c.meshes[k]) |->
                IF c.loaded[k] = "ok" /\ slot_tile(c, k, i) \in DOMAIN colors
                THEN colors[slot_tile(c, k, i)] ELSE c.meshes[k][i]]]]

\* the observer query: player_query.single() is Ok with exactly one entity
query_single_any(n) == TRUE
query_single(n) == n = 1

NoPass ==
    [pass |-> "none", scanned |-> FALSE, tiles |-> {}, pt |-> <<0, 0>>, alpha |-> 0,
     prev |-> brightness_field, target |-> <<>>, next |-> <<>>, calls |-> <<>>,
     stored |-> <<>>, read |-> <<>>]

\* one run of update_visibility with the constants cfg: every tile t of the
\* window that is not a wall gets field[t] = vis[t]; it gets brightness[t] =
\* next[t] and a colour when next[t] exceeds the tolerance
update_visibility(cfg) ==
    IF ~query_single(observers)
    THEN /\ UNCHANGED <<field, brightness, chunks, writers>>
         /\ skipped' = TRUE
         /\ last' = [NoPass EXCEPT !.pass = cfg.name, !.prev = brightness]
    ELSE LET lp == light_pos_of(pos)
             pt == player_tile_of(lp)
             alpha == lerp_alpha(cfg.smooth_speed, dt)
             scan == scan_tiles(cfg, walls, pt)
             vis == [t \in scan |-> tile_visible(cfg, pt, lp, facing, t[1], t[2])]
             target == [t \in scan |->
                          IF vis[t] THEN target_brightness(cfg, TileCenter(t[1], t[2]), lp, facing)
                          ELSE hidden_brightness]
             next == [t \in scan |-> lerp(brightness[t], target[t], alpha)]
             writes == {t \in scan : exceeds_tolerance(next[t], brightness[t])}
             colors == [t \in writes |-> quantized_color(cfg, next[t], t[1], t[2], pt[1], pt[2])]
         IN  /\ last' = [pass |-> cfg.name, scanned |-> TRUE, tiles |-> scan, pt |-> pt,
                         alpha |-> alpha, prev |-> brightness, target |-> target,
                         next |-> next, calls |-> colors,
                         stored |-> [t \in writes |-> StoredColor(chunks, t[1], t[2])],
                         read |-> <<pos, facing>>]
             \* the record of the pass is a value before the stores below read it
             /\ last' = last'
             /\ field' = [t \in Tiles |-> IF t \in last'.tiles THEN vis[t] ELSE field[t]]
             /\ brightness' = [t \in Tiles |->
                                 IF t \in DOMAIN last'.calls THEN last'.next[t]
                                 ELSE brightness[t]]
             /\ chunks' = write_colors(chunks, last'.calls)
             /\ writers' = IF scan = {} THEN writers ELSE writers \cup {cfg.name}
             /\ skipped' = skipped

(* ------------------------------- the player --------------------------- *)
\* spawn_player: the centre of the grid, in 1/100 world unit
SpawnPos ==
    <<(WIDTH \div 2) * WORLD_TILE_SIZE * 100, (HEIGHT \div 2) * WORLD_TILE_SIZE * 100>>

\* FoodTracker holds no location before the 5 s spawn timer of food.rs ends,
\* which no behaviour of MaxFrames frames reaches; main.rs adds no FoodPlugin
\* to the App, so that spawn_food and food_pickup are no systems of it
blocked == FALSE

Keys == {"ArrowLeft", "ArrowRight", "ArrowUp", "ArrowDown"}
Direction(pressed) ==
    <<(IF "ArrowRight" \in pressed THEN 1 ELSE 0) - (IF "ArrowLeft" \in pressed THEN 1 ELSE 0),
      (IF "ArrowUp" \in pressed THEN 1 ELSE 0) - (IF "ArrowDown" \in pressed THEN 1 ELSE 0)>>

\* direction.normalize() * speed * dt in 1/100 world unit: stamina is above 0
\* in every frame of a behaviour, so speed = MOVE_SPEED and speed * dt is
\* delta / 10 world units
MoveDelta(d, delta) ==
    IF d[1] # 0 /\ d[2] # 0
    THEN <<d[1] * RoundDiv(delta * 7071, 1000), d[2] * RoundDiv(delta * 7071, 1000)>>
    ELSE <<d[1] * delta * 10, d[2] * delta * 10>>

FacingOf(d, old) ==
    IF d = <<0, 0>> THEN old
    ELSE IF d[1] # 0 /\ d[2] # 0
    THEN (IF d[1] > 0 /\ d[2] > 0 THEN "UpRight"
          ELSE IF d[1] > 0 /\ d[2] < 0 THEN "DownRight"
          ELSE IF d[1] < 0 /\ d[2] > 0 THEN "UpLeft"
          ELSE "DownLeft")
    ELSE IF d[1] # 0 THEN (IF d[1] > 0 THEN "Right" ELSE "Left")
    ELSE (IF d[2] > 0 THEN "Up" ELSE "Down")

move_player(pressed, delta) ==
    IF ~query_single(observers')
    THEN UNCHANGED <<pos, facing>>
    ELSE LET d == Direction(pressed)
             m == MoveDelta(d, delta)
             proposed == IF d # <<0, 0>> /\ ~blocked
                         THEN <<pos[1] + m[1], pos[2] + m[2]>> ELSE pos
             min_x == WORLD_TILE_SIZE * 100
             max_x == (WIDTH - 2) * WORLD_TILE_SIZE * 100
             min_y == WORLD_TILE_SIZE * 100
             max_y == (HEIGHT - 2) * WORLD_TILE_SIZE * 100
         IN  /\ pos' = <<Clamp(proposed[1], min_x, max_x), Clamp(proposed[2], min_y, max_y)>>
             /\ facing' = FacingOf(d, facing)

(* ------------------------------ the schedule --------------------------- *)
\* Time::delta_secs of a frame, in ticks: 0, 1/1400 s (lerp_alpha 0.043 and
\* 0.034), 1/70 s (lerp_alpha 0.86 and 0.69) and 1/28 s (lerp_alpha 1)
DeltaTicks == {0, 1, 20, 50}
\* The entity set belongs to the ECS world. The systems of src/ spawn one player
\* and never despawn it; the count varies here so that the Err branch of
\* player_query.single() is exercised.
ObserverCounts == {0, 1, 2}

ConeIdle == [pc |-> "idle"]
CallIdle == [op |-> "none", pc |-> "idle"]

Init ==
    /\ pos = SpawnPos
    /\ facing = "Down"
    /\ observers = 1
    /\ dt = 0
    /\ pc = "update"
    /\ done = {}
    /\ order \in Passes
    /\ frame = 0
    /\ walls = walls_field
    /\ field = vector_field
    /\ brightness = brightness_field
    /\ chunks = spawn_chunks(walls_field)
    /\ last = NoPass
    /\ writers = {}
    /\ skipped = FALSE
    /\ tick = [start |-> brightness_field, steady |-> FALSE, frame |-> 0,
               before |-> SpawnPos, moved |-> <<SpawnPos, "Down">>]
    /\ cone = ConeIdle
    /\ call = CallIdle

\* the Update schedule: handle_death_and_respawn (health stays above 0 in a
\* behaviour of MaxFrames frames, so it returns at `!death_state.is_dead`), then
\* move_player
UpdateSchedule ==
    /\ pc = "update"
    /\ frame < MaxFrames
    /\ \E n \in ObserverCounts, delta \in DeltaTicks, pressed \in SUBSET Keys :
          /\ observers' = n
          /\ dt' = delta
          /\ move_player(pressed, delta)
    /\ pc' = "post"
    /\ done' = {}
    /\ writers' = {}
    /\ frame' = frame + 1
    /\ tick' = [start |-> brightness,
                steady |-> /\ frame >= 1
                           /\ observers = 1 /\ observers' = 1
                           /\ pos' = pos /\ facing' = facing /\ dt' = dt,
                frame |-> frame + 1, before |-> pos, moved |-> <<pos', facing'>>]
    /\ UNCHANGED <<order, walls, field, brightness, chunks, last, skipped, cone, call>>

\* Update runs before PostUpdate in the Main schedule of a frame; the two
\* systems of PostUpdate have no order between them
RunsNext_unordered(name) ==
    /\ name \notin done
    /\ (order = name \/ done # {})
RunsNext(name) ==
    /\ pc = "post"
    /\ name \notin done
    /\ (order = name \/ done # {})

PostUpdateSystem(name) ==
    /\ RunsNext(name)
    /\ update_visibility(CfgOf(name))
    /\ done' = done \cup {name}
    /\ pc' = IF done' = Passes THEN "update" ELSE "post"
    /\ UNCHANGED <<pos, facing, observers, dt, order, frame, walls, tick, cone, call>>

\* world.rs: add_systems(PostUpdate, update_visibility)
World_update_visibility == PostUpdateSystem("world")
\* light.rs: add_systems(PostUpdate, update_visibility)
Light_update_visibility == PostUpdateSystem("light")

Next == UpdateSchedule \/ World_update_visibility \/ Light_update_visibility

Spec == Init /\ [][Next]_vars

(* ------------------- properties of the lighting passes ------------------ *)
\* C1: in every reachable state every cell of grid.brightness is at least 0 and
\* at most max_brightness, the constant of each lighting pass that writes the
\* grid (0.93 in light.rs, 0.85 in world.rs).
C1_BrightnessBounds ==
    \A t \in Tiles :
        /\ brightness[t] >= 0
        /\ \A p \in Passes : brightness[t] <= CfgOf(p).max_brightness

\* the unit step of each facing, written out
ConeStepOf(f) ==
    CASE f = "Up" -> <<0, 1>> [] f = "Down" -> <<0, -1>>
      [] f = "Left" -> <<-1, 0>> [] f = "Right" -> <<1, 0>>
      [] f = "UpLeft" -> <<-1, 1>> [] f = "UpRight" -> <<1, 1>>
      [] f = "DownLeft" -> <<-1, -1>> [] f = "DownRight" -> <<1, -1>>

\* the step of a frame in which the pass p runs
PassStep(p) == p \notin done /\ p \in done'

\* the four colour slots of tile t in the colour attribute of its chunk
TileSlots(c, t) ==
    [j \in 1 .. 4 |-> c.meshes[(t[2] \div CHUNK_SIZE) * c.cols + (t[1] \div CHUNK_SIZE) + 1]
                              [((t[2] % CHUNK_SIZE) * CHUNK_SIZE + (t[1] % CHUNK_SIZE)) * 4 + j]]

\* the tile of the snapped observer position
ObserverTile ==
    <<RoundDiv(pos[1], 100) \div WORLD_TILE_SIZE, RoundDiv(pos[2], 100) \div WORLD_TILE_SIZE>>

\* the square of side 2 * bound + 1 around the observer tile, clamped to the grid
SquareAround(bound) ==
    {t \in Tiles : /\ Abs(t[1] - ObserverTile[1]) <= bound
                   /\ Abs(t[2] - ObserverTile[2]) <= bound}

\* C2: one run of a lighting pass visits only tiles of the window
\* [player_tile - outer_bound, player_tile + outer_bound] clamped to the grid,
\* with outer_bound = ceil(range) + 2 + render_padding; it writes field,
\* brightness or a chunk tile colour for at most (2 * outer_bound + 1)^2 cells
\* and leaves every cell outside the window unchanged.
C2_WindowBounding ==
    [][\A p \in Passes :
          PassStep(p) =>
              LET outer == CfgOf(p).range + 2 + RENDER_PADDING_TILES
                  written == {t \in Tiles : \/ field'[t] # field[t]
                                            \/ brightness'[t] # brightness[t]
                                            \/ TileSlots(chunks', t) # TileSlots(chunks, t)}
              IN  /\ last'.tiles \subseteq SquareAround(outer)
                  /\ written \subseteq SquareAround(outer)
                  /\ Cardinality(last'.tiles \cup written) <= (2 * outer + 1) * (2 * outer + 1)]_vars

\* a pass scanned and wrote colours while a tile that is no wall lay outside
\* its window
C2_Witness ==
    /\ last.scanned
    /\ DOMAIN last.calls # {}
    /\ \E t \in Tiles : ~walls[t] /\ t \notin last.tiles

\* C3: in one tick at most one lighting pass writes grid.field and
\* grid.brightness.
C3_SingleWriter == Cardinality(writers) <= 1

\* C7: when the observer query does not yield exactly one observer, the lighting
\* pass does no work: field, brightness and every chunk tile colour stay as they
\* are through the tick; nothing aborts, and a pass of a later tick that has an
\* observer scans its window.
C7_NoObserverNoWork ==
    [][/\ observers' # 1 => UNCHANGED <<field, brightness, chunks>>
       /\ \A p \in Passes :
              (PassStep(p) /\ observers = 1) => (last'.scanned /\ last'.tiles # {})]_vars

\* a pass scanned and wrote after an earlier pass had found no single observer
C7_Witness ==
    /\ skipped
    /\ last.scanned
    /\ DOMAIN last.calls # {}

\* C11: in every frame the Update schedule (handle_death_and_respawn, then
\* move_player) is complete before a lighting pass of PostUpdate runs: a pass
\* runs only in a frame whose Update has run, and the position and facing it
\* reads are those the movement update of the same frame left.
C11_UpdateBeforePasses ==
    [][\A p \in Passes :
          PassStep(p) =>
              /\ frame >= 1
              /\ tick.frame = frame
              /\ pos = tick.moved[1] /\ facing = tick.moved[2]
              /\ last'.scanned => last'.read = tick.moved]_vars

\* a pass read the position of a frame whose movement update changed it
C11_Witness ==
    /\ last.scanned
    /\ tick.before # tick.moved[1]
    /\ last.read = tick.moved
    /\ tick.frame = frame

\* the state right after a pass that scanned: the observer and the delta time
\* are those the pass read
AfterPass == last.scanned /\ (pc = "update" \/ done # {})

\* (smooth_speed * dt).clamp(0.0, 1.0) of the pass that ran last, in 1/TicksPerSecond
AlphaOfLast ==
    LET a == (IF last.pass = "light" THEN 60 ELSE 48) * dt
    IN  IF a > TicksPerSecond THEN TicksPerSecond ELSE a

\* previous + (target - previous) * alpha for tile t of the pass that ran last
Smoothed(t) ==
    last.prev[t] + RoundDiv((last.target[t] - last.prev[t]) * AlphaOfLast, TicksPerSecond)

Between(a, b, c) == (b <= a /\ a <= c) \/ (c <= a /\ a <= b)

\* C5: for a tile that is no wall and stays in the scan window with an unchanged
\* target over consecutive ticks with a fixed dt, the brightness stored after
\* each tick lies between the brightness stored before the tick and the target:
\* the distance to the target never grows and the brightness never crosses it.
C5_MonotoneApproach ==
    (pc = "update" /\ tick.steady /\ last.scanned) =>
        \A t \in last.tiles : Between(brightness[t], tick.start[t], last.target[t])

\* C6 as stated: set_chunk_tile_color is called only for tiles whose colour
\* changed, and a second call with the same colour changes nothing.
C6_OnlyChangedColors ==
    /\ \A t \in DOMAIN last.calls : last.calls[t] # last.stored[t]
    /\ \A t \in DOMAIN last.calls :
           set_chunk_tile_color(chunks, t[1], t[2], last.calls[t]) = chunks

\* C6 amended: set_chunk_tile_color is called for exactly the scanned tiles whose
\* brightness the pass moved by more than 0.001, whether or not the colour
\* differs from the stored one; the call leaves the colour in the four slots of
\* the tile, and a second call with the same colour changes nothing.
C6_CallsGatedOnBrightness ==
    /\ DOMAIN last.calls = {t \in last.tiles : Abs(last.next[t] - last.prev[t]) > 10}
    /\ AfterPass =>
           \A t \in DOMAIN last.calls :
               /\ \A j \in 1 .. 4 : TileSlots(chunks, t)[j] = last.calls[t]
               /\ set_chunk_tile_color(chunks, t[1], t[2], last.calls[t]) = chunks

\* a pass called set_chunk_tile_color with the colour the tile already had
C6_Witness ==
    /\ AfterPass
    /\ \E t \in DOMAIN last.calls : last.calls[t] = last.stored[t]
    /\ \E t \in DOMAIN last.calls : last.calls[t] # last.stored[t]

\* forward of the offset q for the facing f: q . facing_dir(f)
ForwardOf(q, f) == q[1] * ConeStepOf(f)[1] + q[2] * ConeStepOf(f)[2]

\* the snapped observer position, in world units
ObserverPos == <<RoundDiv(pos[1], 100), RoundDiv(pos[2], 100)>>

\* the offset of the centre of tile t from the snapped observer position
OffsetOf(t) ==
    <<t[1] * WORLD_TILE_SIZE + 2 - ObserverPos[1], t[2] * WORLD_TILE_SIZE + 2 - ObserverPos[2]>>

\* C10: is_visible_in_cone answers false for every tile centre with forward <= 0
\* for every facing, and right after a lighting pass no tile of the scan window
\* that is no wall and has forward <= 0 for the facing of the observer is
\* marked visible.
C10_BehindRejected ==
    AfterPass =>
        /\ \A t \in last.tiles : ForwardOf(OffsetOf(t), facing) <= 0 => field[t] = FALSE
        /\ \A t \in Tiles, f \in Facings :
               ForwardOf(OffsetOf(t), f) <= 0 =>
                   ~is_visible_in_cone(<<t[1] * WORLD_TILE_SIZE + 2, t[2] * WORLD_TILE_SIZE + 2>>,
                                       ObserverPos, f, CfgOf(last.pass).range,
                                       CfgOf(last.pass).spread)

\* a pass ran with the observer on the centre of a tile, so that the tile has
\* forward = 0, and marked a tile ahead visible and none behind
C10_Witness ==
    /\ AfterPass
    /\ \E t \in last.tiles : OffsetOf(t) = <<0, 0>> /\ field[t] = FALSE
    /\ \E t \in last.tiles : ForwardOf(OffsetOf(t), facing) > 0 /\ field[t] = TRUE

\* C12: the walls mask is never modified and is true on every cell of the outer
\* border; no lighting pass writes a wall tile: in every reachable state each
\* wall tile has visible = false, brightness = 0 and, in its four colour slots,
\* the wall colour spawn_chunks gave it.
C12_WallsUntouched ==
    /\ walls = [t \in Tiles |-> t[1] = 0 \/ t[2] = 0 \/ t[1] = WIDTH - 1 \/ t[2] = HEIGHT - 1]
    /\ \A t \in Tiles :
           walls[t] =>
               /\ field[t] = FALSE
               /\ brightness[t] = 0
               /\ \A j \in 1 .. 4 : TileSlots(chunks, t)[j] = <<3185, 3185, 3185, 10000>>

\* a pass scanned a window holding a wall tile that lies inside the cone of the
\* observer, and left it dark
C12_Witness ==
    /\ AfterPass
    /\ \E t \in SquareAround(CfgOf(last.pass).range + 2) :
           /\ walls[t]
           /\ is_visible_in_cone(<<t[1] * WORLD_TILE_SIZE + 2, t[2] * WORLD_TILE_SIZE + 2>>,
                                 ObserverPos, facing, CfgOf(last.pass).range,
                                 CfgOf(last.pass).spread)
           /\ field[t] = FALSE /\ brightness[t] = 0

(* ------------- stand-alone calls of is_visible_in_cone ------------------ *)
\* the observer stands at the centre of tile (50, 50), or off it by a part of a
\* tile; tile centres within ConeSpan tiles of it; the ranges of the scenario
\* of the specification (8) and a shorter one; the spreads of the two passes
ConeOrigin == <<50, 50>>
ConeTiles ==
    (ConeOrigin[1] - ConeSpan .. ConeOrigin[1] + ConeSpan) \X (ConeOrigin[2] - ConeSpan .. ConeOrigin[2] + ConeSpan)
ConeOffsets == {<<0, 0>>, <<1, 0>>, <<-2, -2>>}
ConeRanges == {5, 8}
ConeSpreads == {World_spread, Light_spread}

ConeInit ==
    /\ pos = SpawnPos
    /\ facing = "Down"
    /\ observers = 1
    /\ dt = 0
    /\ pc = "update"
    /\ done = {}
    /\ order = "world"
    /\ frame = 0
    /\ walls = walls_field
    /\ field = vector_field
    /\ brightness = brightness_field
    /\ chunks = spawn_chunks(walls_field)
    /\ last = NoPass
    /\ writers = {}
    /\ skipped = FALSE
    /\ tick = [start |-> brightness_field, steady |-> FALSE, frame |-> 0,
               before |-> SpawnPos, moved |-> <<SpawnPos, "Down">>]
    /\ call = CallIdle
    /\ \E tile \in ConeTiles, off \in ConeOffsets, f \in Facings,
          range \in ConeRanges, spread \in ConeSpreads :
          cone = [pc |-> "call", tile |-> tile,
                  player_pos |-> <<TileCenter(ConeOrigin[1], ConeOrigin[2])[1] + off[1],
                                   TileCenter(ConeOrigin[1], ConeOrigin[2])[2] + off[2]>>,
                  facing |-> f, range |-> range, spread |-> spread, result |-> FALSE]

ConeCall ==
    /\ cone.pc = "call"
    /\ cone' = [cone EXCEPT !.pc = "done",
                            !.result = is_visible_in_cone(TileCenter(cone.tile[1], cone.tile[2]),
                                                          cone.player_pos, cone.facing,
                                                          cone.range, cone.spread)]
    /\ UNCHANGED <<pos, facing, observers, dt, pc, done, order, frame, walls, field,
                   brightness, chunks, last, writers, skipped, tick, call>>

SpecCone == ConeInit /\ [][ConeCall]_vars

(* ------------------------ properties of the cone ------------------------ *)
\* a finished call whose observer stands at the centre of tile (50, 50)
\* facing Right with range 8 and spread 1.0
ConeScenario ==
    /\ cone.pc = "done"
    /\ cone.player_pos = <<50 * WORLD_TILE_SIZE + 2, 50 * WORLD_TILE_SIZE + 2>>
    /\ cone.facing = "Right"
    /\ cone.range = 8
    /\ cone.spread = 10000

\* C8: with the observer at the centre of tile (50, 50) facing Right, range 8
\* and spread 1.0, is_visible_in_cone answers true for the centre of tile
\* (58, 50), false for (59, 50), false for (50, 58) and true for (55, 55).
C8_ConeScenario ==
    ConeScenario =>
        /\ cone.tile = <<58, 50>> => cone.result = TRUE
        /\ cone.tile = <<59, 50>> => cone.result = FALSE
        /\ cone.tile = <<50, 58>> => cone.result = FALSE
        /\ cone.tile = <<55, 55>> => cone.result = TRUE

\* the call of the scenario for the tile on the edge of the cone
C8_Witness == ConeScenario /\ cone.tile = <<55, 55>> /\ cone.result = TRUE

\* the offset of the tile centre of a call from its observer, in world units
ConeDelta ==
    <<cone.tile[1] * WORLD_TILE_SIZE + 2 - cone.player_pos[1],
      cone.tile[2] * WORLD_TILE_SIZE + 2 - cone.player_pos[2]>>

\* the tile centre of a call lies steps tiles' worth of forward steps straight
\* ahead of the observer (side = 0): a multiple of the unit step of the facing
ConeAhead(steps_x4) ==
    /\ ConeDelta[1] = ConeStepOf(cone.facing)[1] * steps_x4
    /\ ConeDelta[2] = ConeStepOf(cone.facing)[2] * steps_x4

AtRest ==
    /\ pos = SpawnPos
    /\ facing = "Down"
    /\ observers = 1
    /\ dt = 0
    /\ pc = "update"
    /\ done = {}
    /\ order = "world"
    /\ frame = 0
    /\ walls = walls_field
    /\ field = vector_field
    /\ brightness = brightness_field
    /\ chunks = spawn_chunks(walls_field)
    /\ last = NoPass
    /\ writers = {}
    /\ skipped = FALSE
    /\ tick = [start |-> brightness_field, steady |-> FALSE, frame |-> 0,
               before |-> SpawnPos, moved |-> <<SpawnPos, "Down">>]
    /\ cone = ConeIdle

\* grids of up to MaxGridSide x MaxGridSide tiles, chunks of up to MaxChunkSide tiles
MaxGridSide == 5
MaxChunkSide == 3

\* what a lookup of set_chunk_tile_color finds for the chunk of the first tile
ChunkStates == {"ok", "no_chunks", "no_mesh", "no_colors"}

FirstColor == Color(Light_max_brightness)
SecondColor == Color(World_max_brightness)

\* WorldChunks of a width x height grid in which the lookup for tile t finds `found`
ChunksFound(width, height, size, t, found) ==
    LET c == spawn_chunks_in(width, height, size, walls_field_in(width, height))
    IN  IF found = "ok" THEN c
        ELSE IF found = "no_chunks" THEN WorldChunks_default
        ELSE [c EXCEPT !.loaded[ChunkIndexIn(size, c, t[1], t[2]) + 1] = found]

ChunkInit ==
    /\ AtRest
    /\ \E width \in 1 .. MaxGridSide, height \in 1 .. MaxGridSide, size \in 1 .. MaxChunkSide,
          found \in ChunkStates :
          \E t1 \in (0 .. width - 1) \X (0 .. height - 1), t2 \in (0 .. width - 1) \X (0 .. height - 1) :
             call = [op |-> "chunk", pc |-> "call", width |-> width, height |-> height,
                     size |-> size, found |-> found, tile |-> t1, tile2 |-> t2,
                     before |-> ChunksFound(width, height, size, t1, found),
                     mid |-> WorldChunks_default, after |-> WorldChunks_default]

\* two consecutive calls, as the loop of update_visibility makes them
ChunkCall ==
    /\ call.op = "chunk" /\ call.pc = "call"
    /\ LET mid == set_chunk_tile_color_in(call.size, call.before, call.tile[1], call.tile[2],
                                          FirstColor)
       IN  call' = [call EXCEPT !.pc = "done", !.mid = mid,
                                !.after = set_chunk_tile_color_in(call.size, mid, call.tile2[1],
                                                                  call.tile2[2], SecondColor)]
    /\ UNCHANGED <<pos, facing, observers, dt, pc, done, order, frame, walls, field,
                   brightness, chunks, last, writers, skipped, tick, cone>>

SpecChunk == ChunkInit /\ [][ChunkCall]_vars

(* ---------------------- properties of the chunk writes ------------------ *)
\* where spawn_chunks put the four colour slots of tile t: the chunk (1-based)
\* and the first slot (0-based) in the rows of chunk_w tiles it laid out
SpawnedSlots(width, size, t) ==
    LET cols == (width + size - 1) \div size
        chunk_x == t[1] \div size
        chunk_y == t[2] \div size
        chunk_w == Min(size, width - chunk_x * size)
    IN  [chunk |-> chunk_y * cols + chunk_x + 1,
         base |-> ((t[2] - chunk_y * size) * chunk_w + (t[1] - chunk_x * size)) * 4]

\* c with the four slots spawn_chunks created for tile t set to color
WithTileColor(c, width, size, t, color) ==
    LET s == SpawnedSlots(width, size, t)
    IN  [c EXCEPT !.meshes[s.chunk] =
            [i \in 1 .. Len(c.meshes[s.chunk]) |->
                IF i - 1 \in s.base .. s.base + 3 THEN color ELSE c.meshes[s.chunk][i]]]

\* C13: for any grid dimensions and chunk size, clipped edge chunks included,
\* set_chunk_tile_color overwrites exactly the four slots that spawn_chunks
\* created for the tile, in chunk (y / CHUNK_SIZE) * cols + (x / CHUNK_SIZE)
C13_ExactSlots ==
    (call.op = "chunk" /\ call.pc = "done" /\ call.found = "ok") =>
        call.mid = WithTileColor(call.before, call.width, call.size, call.tile, FirstColor)

\* one of the lookups of set_chunk_tile_color for tile t misses in c: the chunk
\* handle, the mesh, its colour attribute, or the four slots within the attribute
LookupMisses(c, size, t) ==
    LET index == (t[2] \div size) * c.cols + (t[1] \div size)
        base == ((t[2] % size) * size + (t[1] % size)) * 4
    IN  \/ index >= Len(c.meshes)
        \/ c.loaded[index + 1] # "ok"
        \/ base + 3 >= Len(c.meshes[index + 1])

\* C17: when a lookup of set_chunk_tile_color misses, the call returns without
\* modifying anything, and the next call of the loop is made as usual: it
\* writes the four slots it addresses
C17_MissIsNoOp ==
    (call.op = "chunk" /\ call.pc = "done" /\ LookupMisses(call.before, call.size, call.tile)) =>
        /\ call.mid = call.before
        /\ ~LookupMisses(call.mid, call.size, call.tile2) =>
              LET index == (call.tile2[2] \div call.size) * call.mid.cols + (call.tile2[1] \div call.size)
                  base == ((call.tile2[2] % call.size) * call.size + (call.tile2[1] % call.size)) * 4
              IN  \A j \in 1 .. 4 : call.after.meshes[index + 1][base + j] = SecondColor

C17_Witness ==
    /\ call.op = "chunk" /\ call.pc = "done"
    /\ call.found = "no_mesh"
    /\ LookupMisses(call.before, call.size, call.tile)
    /\ ~LookupMisses(call.mid, call.size, call.tile2)
    /\ call.mid = call.before /\ call.after # call.mid

(* ------------------ stand-alone calls of the quantizer ------------------ *)
\* brightness values 0, 1/QuantSamples, .. of the larger max_brightness
QuantSamples == 30
QuantBrightness == {(i * Light_max_brightness) \div QuantSamples : i \in 0 .. QuantSamples}
QuantTiles == (0 .. 3) \X (0 .. 3)
QuantObservers == (2 .. 5) \X (2 .. 5)
\* from the first observer tile to the second one
QuantShifts == {<<0, 0>>, <<4, 0>>, <<0, -4>>, <<-8, 4>>, <<1, 2>>}

QuantInit ==
    /\ AtRest
    /\ \E p \in Passes, next \in QuantBrightness, t \in QuantTiles, o \in QuantObservers,
          shift \in QuantShifts :
          call = [op |-> "quant", pc |-> "call", pass |-> p, next |-> next, tile |-> t,
                  observer |-> o, observer2 |-> <<o[1] + shift[1], o[2] + shift[2]>>,
                  index |-> 0, display |-> 0, color |-> BLACK, color2 |-> BLACK]

\* lines 179-190 of the pass for one tile, once for each of the two observer tiles
QuantCall ==
    /\ call.op = "quant" /\ call.pc = "call"
    /\ LET cfg == CfgOf(call.pass)
           x == call.tile[1]
           y == call.tile[2]
       IN  call' = [call EXCEPT
                       !.pc = "done",
                       !.index = bayer_index(dither_phase(x, call.observer[1]),
                                             dither_phase(y, call.observer[2])),
                       !.display = quantized_display(cfg, call.next, x, y,
                                                     call.observer[1], call.observer[2]),
                       !.color = quantized_color(cfg, call.next, x, y,
                                                 call.observer[1], call.observer[2]),
                       !.color2 = quantized_color(cfg, call.next, x, y,
                                                  call.observer2[1], call.observer2[2])]
    /\ UNCHANGED <<pos, facing, observers, dt, pc, done, order, frame, walls, field,
                   brightness, chunks, last, writers, skipped, tick, cone>>

SpecQuant == QuantInit /\ [][QuantCall]_vars

(* ----------------------- properties of the quantizer -------------------- *)
QuantDone == call.op = "quant" /\ call.pc = "done"

\* the two observer tiles of the call are congruent modulo 4
Congruent ==
    /\ (call.observer[1] - call.observer2[1]) % 4 = 0
    /\ (call.observer[2] - call.observer2[2]) % 4 = 0

\* C14: the quantized colour is a function of the brightness and of the phase
\* ((x - ox) mod 4, (y - oy) mod 4), the modulo being non-negative: observer
\* tiles congruent modulo 4 give the same colour for the same tile and
\* brightness, also when x < ox, and the Bayer index is within 0..15
C14_DitherDeterminism ==
    QuantDone =>
        LET phase_x == CHOOSE p \in 0 .. 3 : \E q \in -4 .. 4 : call.tile[1] - call.observer[1] = 4 * q + p
            phase_y == CHOOSE p \in 0 .. 3 : \E q \in -4 .. 4 : call.tile[2] - call.observer[2] = 4 * q + p
        IN  /\ call.index \in 0 .. 15
            /\ call.index = phase_x + 4 * phase_y
            /\ call.color = quantized_color(CfgOf(call.pass), call.next, phase_x, phase_y, 0, 0)
            /\ Congruent => call.color2 = call.color

C14_Witness ==
    /\ QuantDone /\ Congruent
    /\ call.observer2 # call.observer
    /\ call.tile[1] < call.observer[1] /\ call.tile[2] < call.observer2[2]
    /\ call.color2 = call.color
    /\ call.color # quantized_color(CfgOf(call.pass), call.next, call.tile[1] + 1, call.tile[2],
                                    call.observer[1], call.observer[2])

\* C15: the display value is max_brightness * k / pixel_levels for an integer
\* k in 0..pixel_levels, and brightness 0 gives display 0 for every phase
C15_DisplayLevels ==
    QuantDone =>
        /\ \E k \in 0 .. PIXEL_LEVELS :
              call.display = (CfgOf(call.pass).max_brightness * k) \div PIXEL_LEVELS
        /\ call.next = 0 => call.display = 0

C15_Witness ==
    /\ QuantDone
    /\ call.next > 0 /\ call.next < CfgOf(call.pass).max_brightness
    /\ call.display = (CfgOf(call.pass).max_brightness * 3) \div PIXEL_LEVELS
    /\ call.display > call.next
    /\ call.index = 15

(* ------------- stand-alone calls of the brightness target --------------- *)
\* view distances in tiles, and tiles up to TargetSteps steps along the facing
TargetRanges == {2, 5, 8}
TargetSteps == 9
\* the observer, in world units from the centre of tile ConeOrigin along the facing
TargetOffsets == {0, 1, -2}

TargetInit ==
    /\ AtRest
    /\ \E p \in Passes, range \in TargetRanges, f \in Facings, off \in TargetOffsets,
          k1 \in 0 .. TargetSteps, k2 \in 0 .. TargetSteps :
          /\ k1 < k2
          /\ call = [op |-> "target", pc |-> "call", pass |-> p, range |-> range, facing |-> f,
                     light_pos |-> <<TileCenter(ConeOrigin[1], ConeOrigin[2])[1] + off * ConeStepOf(f)[1],
                                     TileCenter(ConeOrigin[1], ConeOrigin[2])[2] + off * ConeStepOf(f)[2]>>,
                     near |-> <<ConeOrigin[1] + k1 * ConeStepOf(f)[1], ConeOrigin[2] + k1 * ConeStepOf(f)[2]>>,
                     far |-> <<ConeOrigin[1] + k2 * ConeStepOf(f)[1], ConeOrigin[2] + k2 * ConeStepOf(f)[2]>>,
                     target_near |-> 0, target_far |-> 0]

\* lines 155-171 of the pass for two tiles
TargetCall ==
    /\ call.op = "target" /\ call.pc = "call"
    /\ LET cfg == [CfgOf(call.pass) EXCEPT !.range = call.range]
       IN  call' = [call EXCEPT
                       !.pc = "done",
                       !.target_near = target_brightness(cfg, TileCenter(call.near[1], call.near[2]),
                                                         call.light_pos, call.facing),
                       !.target_far = target_brightness(cfg, TileCenter(call.far[1], call.far[2]),
                                                        call.light_pos, call.facing)]
    /\ UNCHANGED <<pos, facing, observers, dt, pc, done, order, frame, walls, field,
                   brightness, chunks, last, writers, skipped, tick, cone>>

SpecTarget == TargetInit /\ [][TargetCall]_vars

(* -------------------- properties of the brightness target --------------- *)
\* tile_center - light_pos of tile t of the call, in world units
TargetDelta(t) ==
    <<TileCenter(t[1], t[2])[1] - call.light_pos[1], TileCenter(t[1], t[2])[2] - call.light_pos[2]>>
\* the square of the distance of tile t from the observer, in world units
TargetDist2(t) == TargetDelta(t)[1] * TargetDelta(t)[1] + TargetDelta(t)[2] * TargetDelta(t)[2]
\* side = delta.x * -dir.y + delta.y * dir.x is 0 for tile t
OnAxis(t) ==
    TargetDelta(t)[1] * (-ConeStepOf(call.facing)[2]) + TargetDelta(t)[2] * ConeStepOf(call.facing)[1] = 0
\* the tiles of the call are at distances d1 < d2 <= range
NearFarInRange ==
    /\ TargetDist2(call.near) < TargetDist2(call.far)
    /\ TargetDist2(call.far) <= (call.range * WORLD_TILE_SIZE) * (call.range * WORLD_TILE_SIZE)

\* C16: for each facing and two tile centres on the forward axis (side = 0) at
\* distances d1 < d2 <= range, the target of the nearer tile is at least the
\* target of the farther tile
C16_MonotoneFalloff ==
    (call.op = "target" /\ call.pc = "done") =>
        /\ OnAxis(call.near) /\ OnAxis(call.far)
        /\ NearFarInRange => call.target_near >= call.target_far

C16_Witness ==
    /\ call.op = "target" /\ call.pc = "done"
    /\ call.facing = "UpLeft" /\ call.pass = "light"
    /\ NearFarInRange
    /\ TargetDist2(call.near) > 0
    /\ call.target_near > call.target_far /\ call.target_far > 0

(* ----------- stand-alone runs of the loop body for one tile ------------- *)
\* view distances in tiles for which the padding ring holds tiles of the cone
TileRanges == {4, 6}

\* the scan window around player tile pt, away from the borders of the grid
WindowAround(cfg, pt) ==
    (pt[1] - outer_bound(cfg) .. pt[1] + outer_bound(cfg))
        \X (pt[2] - outer_bound(cfg) .. pt[2] + outer_bound(cfg))

TileInit ==
    /\ AtRest
    /\ \E p \in Passes, range \in TileRanges, f \in Facings, off \in ConeOffsets, prev \in BOOLEAN :
          \E t \in WindowAround([CfgOf(p) EXCEPT !.range = range], ConeOrigin) :
             call = [op |-> "tile", pc |-> "call", pass |-> p, range |-> range, facing |-> f,
                     light_pos |-> <<TileCenter(ConeOrigin[1], ConeOrigin[2])[1] + off[1],
                                     TileCenter(ConeOrigin[1], ConeOrigin[2])[2] + off[2]>>,
                     tile |-> t, prev |-> prev, visible |-> prev, target |-> 0]

\* lines 134-174 of the pass for one tile that is no wall
TileCall ==
    /\ call.op = "tile" /\ call.pc = "call"
    /\ LET cfg == [CfgOf(call.pass) EXCEPT !.range = call.range]
           pt == player_tile_of(call.light_pos)
           visible == tile_visible(cfg, pt, call.light_pos, call.facing, call.tile[1], call.tile[2])
       IN  call' = [call EXCEPT
                       !.pc = "done",
                       !.visible = visible,
                       !.target = IF visible
                                  THEN target_brightness(cfg, TileCenter(call.tile[1], call.tile[2]),
                                                         call.light_pos, call.facing)
                                  ELSE hidden_brightness]
    /\ UNCHANGED <<pos, facing, observers, dt, pc, done, order, frame, walls, field,
                   brightness, chunks, last, writers, skipped, tick, cone>>

SpecTile == TileInit /\ [][TileCall]_vars

(* ---------------------- properties of the padding ring ------------------ *)
\* the tile of the call is farther than ceil(range) + 2 tiles from the
\* observer tile in x or in y
InPaddingRing ==
    \/ Abs(call.tile[1] - call.light_pos[1] \div WORLD_TILE_SIZE) > call.range + 2
    \/ Abs(call.tile[2] - call.light_pos[2] \div WORLD_TILE_SIZE) > call.range + 2

\* C18: a tile of the scan window that is farther than inner_bound from the
\* observer tile in x or y gets visible = false and target 0, whatever its
\* flag was and whatever the cone predicate says
C18_PaddingRingHidden ==
    (call.op = "tile" /\ call.pc = "done" /\ InPaddingRing) =>
        /\ call.visible = FALSE
        /\ call.target = 0

\* a ring tile inside the cone, flagged visible before, is hidden
C18_Witness ==
    /\ call.op = "tile" /\ call.pc = "done" /\ InPaddingRing
    /\ call.prev = TRUE
    /\ is_visible_in_cone(TileCenter(call.tile[1], call.tile[2]), call.light_pos, call.facing,
                          call.range, CfgOf(call.pass).spread)
    /\ call.visible = FALSE /\ call.target = 0

(* ------------------ properties of the inner-bound window ---------------- *)
\* the cone predicate answers true for the tile of the call, with the range
\* and the spread of its pass
InCone ==
    is_visible_in_cone(TileCenter(call.tile[1], call.tile[2]), call.light_pos, call.facing,
                       call.range, CfgOf(call.pass).spread)

\* C21: the inner-bound window is a conservative pre-filter of the cone: for
\* each of the 8 facings, a tile that is no wall and for which
\* is_visible_in_cone answers true lies within ceil(range) + 2 tiles of the
\* observer tile in x and in y, and the pass marks it visible
C21_InnerCoversCone ==
    (call.op = "tile" /\ call.pc = "done" /\ InCone) =>
        /\ Abs(call.tile[1] - call.light_pos[1] \div WORLD_TILE_SIZE) <= call.range + 2
        /\ Abs(call.tile[2] - call.light_pos[2] \div WORLD_TILE_SIZE) <= call.range + 2
        /\ call.visible = TRUE

(* ------------- the smoother over consecutive frames for one tile -------- *)
\* The observer stands at the spawn position and no key is held: every frame
\* has the same delta time, and each pass computes the same target for the
\* tile in every frame. The schedule runs the two passes of a frame in turn.
FadeFacings == {"Down", "UpRight"}
FadeBrightness == {0, 3000, Light_max_brightness}

\* what pass p computes for tile t in every frame: whether its loops visit
\* the tile, and the target (lines 127-174)
FadeTarget(p, f, t) ==
    LET cfg == CfgOf(p)
        lp == light_pos_of(SpawnPos)
        pt == player_tile_of(lp)
    IN  [scanned |-> t \in scan_tiles(cfg, walls_field, pt),
         target |-> IF tile_visible(cfg, pt, lp, f, t[1], t[2])
                    THEN target_brightness(cfg, TileCenter(t[1], t[2]), lp, f)
                    ELSE hidden_brightness]

FadeInit ==
    /\ AtRest
    /\ \E f \in FadeFacings, b \in FadeBrightness, d \in DeltaTicks \ {0}, first \in Passes :
          \E t \in scan_tiles(LightCfg, walls_field, player_tile_of(light_pos_of(SpawnPos))) :
             call = [op |-> "fade", pc |-> "run", facing |-> f, tile |-> t, dt |-> d,
                     computed |-> [p \in Passes |-> FadeTarget(p, f, t)],
                     turn |-> first, brightness |-> b, ran |-> "none", target |-> b]

\* lines 175-178 of pass p for the tile of the call
FadePass(p) ==
    /\ call.op = "fade" /\ call.turn = p
    /\ LET scanned == call.computed[p].scanned
           target == call.computed[p].target
           next == lerp(call.brightness, target, lerp_alpha(CfgOf(p).smooth_speed, call.dt))
       IN  call' = [call EXCEPT
                       !.turn = IF p = "world" THEN "light" ELSE "world",
                       !.brightness = IF scanned /\ exceeds_tolerance(next, call.brightness)
                                      THEN next ELSE call.brightness,
                       !.ran = IF scanned THEN p ELSE call.ran,
                       !.target = IF scanned THEN target ELSE call.target]
    /\ UNCHANGED <<pos, facing, observers, dt, pc, done, order, frame, walls, field,
                   brightness, chunks, last, writers, skipped, tick, cone>>

World_fade == FadePass("world")
Light_fade == FadePass("light")
FadeNext == World_fade \/ Light_fade

\* the application runs its schedules frame after frame
SpecFade == FadeInit /\ [][FadeNext]_vars /\ WF_vars(FadeNext)

(* -------------------- properties of the smoother over time -------------- *)
\* C19: with the target of the tile held constant and a fixed dt > 0, the
\* stored brightness eventually comes within 0.001 of the target the pass
\* computes and stays there; a tile that stays hidden fades to within 0.001 of 0
C19_Converges ==
    <>[](call.op = "fade" => Abs(call.brightness - call.target) <= 10)

(* -------- one tile over consecutive frames, at the program's scale ------ *)
\* The grid and the view distances of the program: 600 x 600 tiles, 124 tiles
\* in light.rs and 72 tiles in world.rs. The observer starts at the spawn
\* position in the middle of the grid, far from the borders, and the tiles
\* below are no walls.
FullGrid == 600
Light_full_distance == 124
World_full_distance == 72
FullCfg(name) ==
    IF name = "light" THEN [LightCfg EXCEPT !.range = Light_full_distance]
    ELSE [WorldCfg EXCEPT !.range = World_full_distance]
TrackSpawn ==
    <<(FullGrid \div 2) * WORLD_TILE_SIZE * 100, (FullGrid \div 2) * WORLD_TILE_SIZE * 100>>

TrackFrames == 2
\* Time::delta_secs in ticks: 1/1400 s, 6/1400 s and 1/28 s
TrackTicks == {1, 6, 50}
\* tiles below the spawn tile: in the window of light.rs only, and in both windows
TrackTiles == ((298 .. 302) \X (200 .. 203)) \cup ((299 .. 301) \X (270 .. 271))

TrackInit ==
    /\ AtRest
    /\ \E t \in TrackTiles, first \in Passes :
          call = [op |-> "track", pc |-> "update", tile |-> t, first |-> first,
                  pos |-> TrackSpawn, facing |-> "Down", dt |-> 0, frame |-> 0, done |-> {},
                  brightness |-> 0, color |-> BLACK,
                  pt |-> player_tile_of(light_pos_of(TrackSpawn)),
                  pt_before |-> player_tile_of(light_pos_of(TrackSpawn)),
                  ran |-> "none", scanned |-> FALSE, rewrote |-> FALSE, color_before |-> BLACK]

\* the Update schedule of a frame: move_player, no food in the way
TrackUpdate ==
    /\ call.op = "track" /\ call.pc = "update"
    /\ call.frame < TrackFrames
    /\ \E delta \in TrackTicks, pressed \in SUBSET Keys :
          LET d == Direction(pressed)
              m == MoveDelta(d, delta)
          IN  call' = [call EXCEPT
                          !.pc = "post", !.frame = call.frame + 1, !.dt = delta, !.done = {},
                          !.pos = IF d # <<0, 0>> THEN <<call.pos[1] + m[1], call.pos[2] + m[2]>>
                                  ELSE call.pos,
                          !.facing = FacingOf(d, call.facing),
                          !.pt_before = player_tile_of(light_pos_of(call.pos)),
                          !.ran = "none", !.scanned = FALSE, !.rewrote = FALSE]
    /\ UNCHANGED <<pos, facing, observers, dt, pc, done, order, frame, walls, field,
                   brightness, chunks, last, writers, skipped, tick, cone>>

\* update_visibility of pass p for the tile of the call
TrackPass(p) ==
    /\ call.op = "track" /\ call.pc = "post"
    /\ p \notin call.done
    /\ (call.first = p \/ call.done # {})
    /\ LET cfg == FullCfg(p)
           lp == light_pos_of(call.pos)
           pt == player_tile_of(lp)
           t == call.tile
           scanned == t \in WindowAround(cfg, pt)
           target == IF tile_visible(cfg, pt, lp, call.facing, t[1], t[2])
                     THEN target_brightness(cfg, TileCenter(t[1], t[2]), lp, call.facing)
                     ELSE hidden_brightness
           next == lerp(call.brightness, target, lerp_alpha(cfg.smooth_speed, call.dt))
           rewrote == scanned /\ exceeds_tolerance(next, call.brightness)
       IN  call' = [call EXCEPT
                       !.done = call.done \cup {p},
                       !.pc = IF call.done \cup {p} = Passes THEN "update" ELSE "post",
                       !.ran = p, !.pt = pt, !.scanned = scanned, !.rewrote = rewrote,
                       !.color_before = call.color,
                       !.brightness = IF rewrote THEN next ELSE call.brightness,
                       !.color = IF rewrote
                                 THEN quantized_color(cfg, next, t[1], t[2], pt[1], pt[2])
                                 ELSE call.color]
    /\ UNCHANGED <<pos, facing, observers, dt, pc, done, order, frame, walls, field,
                   brightness, chunks, last, writers, skipped, tick, cone>>

World_track == TrackPass("world")
Light_track == TrackPass("light")

SpecTrack == TrackInit /\ [][TrackUpdate \/ World_track \/ Light_track]_vars

(* -------------------- properties of the dither phase -------------------- *)
\* a pass has just run for the tile, in a frame in which the observer tile changed
ObserverTileChanged ==
    /\ call.op = "track" /\ call.ran \in Passes /\ call.scanned
    /\ call.frame > 1
    /\ call.pt # call.pt_before

\* C20: the dither pattern follows the observer: after a pass in which the
\* observer tile changed, every non-wall tile of the scan window shows the
\* colour the quantizer yields for its stored brightness with the phase taken
\* relative to the new observer tile
C20_DitherFollowsObserver ==
    ObserverTileChanged =>
        call.color = quantized_color(FullCfg(call.ran), call.brightness,
                                     call.tile[1], call.tile[2], call.pt[1], call.pt[2])

\* C20, amended: after a pass in which the observer tile changed, every tile
\* whose brightness the pass stored (a step above the 0.001 tolerance) shows
\* the quantizer's colour for the stored brightness with the phase relative to
\* the new observer tile; a tile the pass did not store keeps the colour it had
C20_RewrittenFollowObserver ==
    ObserverTileChanged =>
        LET phase_x == CHOOSE q \in 0 .. 3 : (call.tile[1] - call.pt[1] - q) % 4 = 0
            phase_y == CHOOSE q \in 0 .. 3 : (call.tile[2] - call.pt[2] - q) % 4 = 0
        IN  /\ call.rewrote =>
                  call.color = quantized_color(FullCfg(call.ran), call.brightness,
                                               phase_x, phase_y, 0, 0)
            /\ ~call.rewrote => call.color = call.color_before

C20_Witness ==
    /\ ObserverTileChanged /\ call.rewrote
    /\ call.color # BLACK
    /\ call.color # quantized_color(FullCfg(call.ran), call.brightness,
                                    call.tile[1], call.tile[2],
                                    call.pt_before[1], call.pt_before[2])

(* ------------- the player: death, respawn, movement, energy ------------- *)
\* Stats are kept in 1/TicksPerSecond point, so that a rate per second times a
\* delta time in ticks is a whole number.
STATS_MAX == 100
FOOD_BAR_MAX == 100
stamina_drain_per_sec == 8
stamina_regen_per_sec == 12
health_drain_per_sec == 3
food_bar_drain_per_sec == 2
food_bar_empty_drain_per_sec == 4
food_bar_empty_health_drain_per_sec == 10

\* the entity spawn_player spawns and DeathRespawnState::new(), on the grid of
\* the program
spawn_player ==
    [pos |-> TrackSpawn, facing |-> "Down",
     health |-> STATS_MAX * TicksPerSecond, stamina |-> STATS_MAX * TicksPerSecond,
     food_bar |-> FOOD_BAR_MAX * TicksPerSecond,
     is_moving |-> FALSE, is_dead |-> FALSE]

\* handle_death_and_respawn: the player query and the overlay query yield one
\* entity each; new_game_pressed is just_pressed(Enter) || just_pressed(KeyR)
handle_death_and_respawn(p, new_game_pressed) ==
    IF ~p.is_dead /\ p.health <= 0
    THEN [p EXCEPT !.is_dead = TRUE, !.is_moving = FALSE]
    ELSE IF ~p.is_dead THEN p
    ELSE IF ~new_game_pressed THEN [p EXCEPT !.is_moving = FALSE]
    ELSE [p EXCEPT !.is_moving = FALSE,
                   !.pos = TrackSpawn,
                   !.health = STATS_MAX * TicksPerSecond,
                   !.stamina = STATS_MAX * TicksPerSecond,
                   !.food_bar = FOOD_BAR_MAX * TicksPerSecond,
                   !.facing = "Down",
                   !.is_dead = FALSE]

\* `if death_state.is_dead { return; }` of move_player and energy_system
dead_returns_never(is_dead) == FALSE
dead_returns(is_dead) == is_dead

\* direction.normalize() * speed * dt in 1/100 world unit, with
\* speed = MOVE_SPEED * LOW_STAMINA_SPEED_FACTOR (a third) when stamina <= 0
MoveDeltaAt(d, delta, stamina) ==
    IF stamina <= 0
    THEN <<RoundDiv(MoveDelta(d, delta)[1], 3), RoundDiv(MoveDelta(d, delta)[2], 3)>>
    ELSE MoveDelta(d, delta)

\* move_player on the grid of the program, for the one player entity
Player_move_player(p, pressed, delta) ==
    IF dead_returns(p.is_dead) THEN p
    ELSE LET d == Direction(pressed)
             m == MoveDeltaAt(d, delta, p.stamina)
             did_move == d # <<0, 0>> /\ ~blocked
             proposed == IF did_move THEN <<p.pos[1] + m[1], p.pos[2] + m[2]>> ELSE p.pos
             min_x == WORLD_TILE_SIZE * 100
             max_x == (FullGrid - 2) * WORLD_TILE_SIZE * 100
             min_y == WORLD_TILE_SIZE * 100
             max_y == (FullGrid - 2) * WORLD_TILE_SIZE * 100
         IN  [p EXCEPT !.pos = <<Clamp(proposed[1], min_x, max_x), Clamp(proposed[2], min_y, max_y)>>,
                       !.facing = FacingOf(d, p.facing),
                       !.is_moving = did_move]

\* energy_system, delta in ticks
energy_system(p, delta) ==
    IF dead_returns(p.is_dead) THEN p
    ELSE LET food1 == Max(p.food_bar - food_bar_drain_per_sec * delta, 0)
             health1 == IF food1 <= 0
                        THEN Max(p.health - food_bar_empty_health_drain_per_sec * delta, 0)
                        ELSE p.health
             stamina1 == IF p.is_moving
                         THEN Max(p.stamina - stamina_drain_per_sec * delta, 0)
                         ELSE p.stamina
             health2 == IF p.is_moving /\ stamina1 <= 0
                        THEN Max(health1 - health_drain_per_sec * delta, 0)
                        ELSE health1
             allow_regen == stamina1 < 100 * TicksPerSecond /\ food1 > 0
             regen == ~p.is_moving /\ allow_regen
         IN  [p EXCEPT !.food_bar = IF regen
                                    THEN Max(food1 - food_bar_empty_drain_per_sec * delta, 0)
                                    ELSE food1,
                       !.health = health2,
                       !.stamina = IF regen
                                   THEN Min(stamina1 + stamina_regen_per_sec * delta,
                                            100 * TicksPerSecond)
                                   ELSE stamina1]

(* ------------- update_visibility for one tile of the grid ---------------- *)
\* set_visible: field[uy][ux] = visible
stored_flag_sticky(old, visible) == old \/ visible
stored_flag(old, visible) == visible

\* what one run of the pass with constants cfg does to tile t (no wall, in the
\* grid): s holds the visible flag, the brightness and the colour of the tile
tile_pass(cfg, raw_pos, f, delta, t, s) ==
    LET lp == light_pos_of(raw_pos)
        pt == player_tile_of(lp)
        visible == tile_visible(cfg, pt, lp, f, t[1], t[2])
        target == IF visible
                  THEN target_brightness(cfg, TileCenter(t[1], t[2]), lp, f)
                  ELSE hidden_brightness
        next == lerp(s.brightness, target, lerp_alpha(cfg.smooth_speed, delta))
    IN  IF t \notin WindowAround(cfg, pt) THEN s
        ELSE IF exceeds_tolerance(next, s.brightness)
        THEN [visible |-> stored_flag(s.visible, visible), brightness |-> next,
              color |-> quantized_color(cfg, next, t[1], t[2], pt[1], pt[2])]
        ELSE [s EXCEPT !.visible = stored_flag(s.visible, visible)]

(* ------------- frames of the player and one tile of the grid ------------ *)
\* main.rs adds PlayerPlugin, WorldPlugin and LightPlugin to the App. A frame
\* runs the chain of PlayerPlugin in Update (handle_death_and_respawn,
\* move_player, update_status_ui, which writes the status icons only, and
\* energy_system) and then the two update_visibility systems in PostUpdate.
\* The grid and the view distances are those of the program.
LifeFrames == 3
\* Time::delta_secs in ticks: 0.01 s and 0.25 s
LifeTicks == {14, 350}
\* the arrow keys held in a frame: none, one, or two for a diagonal
LifeKeys == {{}, {"ArrowDown"}, {"ArrowUp", "ArrowRight"}}

\* a position the player has walked to, 200 tiles right of the grid centre
LifeFar == <<TrackSpawn[1] + 200 * WORLD_TILE_SIZE * 100, TrackSpawn[2]>>

\* Stats the energy system leaves after the player has walked (the first
\* record: 115 frames of 0.25 s, stamina used up, health draining at 3 a
\* second) or has stood still until the food bar was empty and the health
\* drained at 10 a second, to one frame of 0.25 s before 0 and to 0
LifeStats ==
    {[health |-> 70700, stamina |-> 0, food_bar |-> 59500],
     [health |-> 3500, stamina |-> STATS_MAX * TicksPerSecond, food_bar |-> 0],
     [health |-> 0, stamina |-> STATS_MAX * TicksPerSecond, food_bar |-> 0]}

\* the player at the start of a behaviour: as spawned, or alive at LifeFar
LifeStarts ==
    {spawn_player} \cup
    {[spawn_player EXCEPT !.pos = LifeFar, !.facing = f, !.health = st.health,
                          !.stamina = st.stamina, !.food_bar = st.food_bar] :
         f \in {"Down", "Right"}, st \in LifeStats}

\* tiles 10 and 100 tiles below the grid centre, a tile 10 tiles below LifeFar,
\* and a tile 15 tiles to the side of the first, inside the cone of light.rs
\* only
LifeTiles == {<<300, 290>>, <<300, 200>>, <<500, 290>>, <<315, 290>>}

\* the visible flag, the brightness and the colour of a tile after spawn_chunks
TileAtRest == [visible |-> FALSE, brightness |-> 0, color |-> BLACK]

LifeInit ==
    /\ AtRest
    /\ \E t \in LifeTiles, first \in Passes, p \in LifeStarts :
          call = [op |-> "life", pc |-> "handle", frame |-> 0, first |-> first, done |-> {},
                  player |-> p, start |-> p, dt |-> 0, pressed |-> {}, new_game |-> FALSE,
                  tile |-> t, grid |-> TileAtRest, before |-> TileAtRest,
                  alt |-> TileAtRest, ran |-> "none",
                  dead_frame |-> FALSE, respawned |-> FALSE]

\* the first system of the chain; the frame's delta time and keys are drawn here
Life_handle_death_and_respawn ==
    /\ call.op = "life" /\ call.pc = "handle"
    /\ call.frame < LifeFrames
    /\ \E delta \in LifeTicks, pressed \in LifeKeys, new_game_pressed \in BOOLEAN :
          LET p == handle_death_and_respawn(call.player, new_game_pressed)
          IN  call' = [call EXCEPT
                          !.pc = "move", !.frame = call.frame + 1, !.done = {},
                          !.dt = delta, !.pressed = pressed, !.new_game = new_game_pressed,
                          !.start = call.player, !.player = p,
                          !.alt = call.grid, !.ran = "none",
                          !.respawned = call.respawned \/ (call.player.is_dead /\ ~p.is_dead)]
    /\ UNCHANGED <<pos, facing, observers, dt, pc, done, order, frame, walls, field,
                   brightness, chunks, last, writers, skipped, tick, cone>>

Life_move_player ==
    /\ call.op = "life" /\ call.pc = "move"
    /\ call' = [call EXCEPT
                   !.pc = "energy",
                   !.player = Player_move_player(call.player, call.pressed, call.dt)]
    /\ UNCHANGED <<pos, facing, observers, dt, pc, done, order, frame, walls, field,
                   brightness, chunks, last, writers, skipped, tick, cone>>

Life_energy_system ==
    /\ call.op = "life" /\ call.pc = "energy"
    /\ call' = [call EXCEPT
                   !.pc = "post",
                   !.player = energy_system(call.player, call.dt)]
    /\ UNCHANGED <<pos, facing, observers, dt, pc, done, order, frame, walls, field,
                   brightness, chunks, last, writers, skipped, tick, cone>>

\* update_visibility of pass p for the tile of the behaviour. before and alt
\* are history: the tile as it was when the pass started, and the tile as the
\* frame leaves it when PostUpdate runs the two systems in the other order.
LifePass(p) ==
    /\ call.op = "life" /\ call.pc = "post"
    /\ p \notin call.done
    /\ (call.first = p \/ call.done # {})
    /\ LET other == IF p = "world" THEN "light" ELSE "world"
           g == tile_pass(FullCfg(p), call.player.pos, call.player.facing, call.dt,
                          call.tile, call.grid)
           a == tile_pass(FullCfg(other), call.player.pos, call.player.facing, call.dt,
                          call.tile, call.alt)
           finished == call.done \cup {p} = Passes
       IN  call' = [call EXCEPT
                       !.done = call.done \cup {p},
                       !.pc = IF finished THEN "handle" ELSE "post",
                       !.grid = g, !.before = call.grid, !.alt = a, !.ran = p,
                       !.dead_frame = \/ call.dead_frame
                                      \/ /\ finished
                                         /\ call.start.is_dead /\ call.player.is_dead
                                         /\ call.pressed # {}]
    /\ UNCHANGED <<pos, facing, observers, dt, pc, done, order, frame, walls, field,
                   brightness, chunks, last, writers, skipped, tick, cone>>

World_life == LifePass("world")
Light_life == LifePass("light")

SpecLife ==
    LifeInit /\ [][\/ Life_handle_death_and_respawn \/ Life_move_player
                   \/ Life_energy_system \/ World_life \/ Light_life]_vars

(* --------------------- properties of the visible mask ------------------- *)
\* the snapped position of the player, in world units, and its tile
LifePos == <<RoundDiv(call.player.pos[1], 100), RoundDiv(call.player.pos[2], 100)>>
LifeTile == <<LifePos[1] \div WORLD_TILE_SIZE, LifePos[2] \div WORLD_TILE_SIZE>>

\* the tile of the behaviour lies in the scan window of pass p around the
\* tile of the player
InScanWindow(p) ==
    /\ Abs(call.tile[1] - LifeTile[1]) <= FullCfg(p).range + 2 + RENDER_PADDING_TILES
    /\ Abs(call.tile[2] - LifeTile[2]) <= FullCfg(p).range + 2 + RENDER_PADDING_TILES

\* C22: in every state reached after a lighting pass, whatever the moves, the
\* facing changes and the respawn teleports before it, a tile has visible =
\* true only if it lies in the scan window of the pass that ran last and
\* satisfies that pass's cone predicate for the current snapped observer
\* position and facing: no true flag of an earlier observer position survives
C22_NoStaleFlags ==
    (call.op = "life" /\ call.ran \in Passes /\ call.grid.visible) =>
        /\ InScanWindow(call.ran)
        /\ is_visible_in_cone(TileCenter(call.tile[1], call.tile[2]), LifePos,
                              call.player.facing, FullCfg(call.ran).range,
                              FullCfg(call.ran).spread)

\* C22 amended: after a lighting pass, a tile that lies in the scan window of
\* the pass that ran last has visible = true only if it satisfies that pass's
\* cone predicate for the current snapped observer position and facing; a tile
\* outside that window keeps the flag it had before the pass, which may be a
\* true flag of an earlier observer position
C22_WindowFlagsCurrent ==
    (call.op = "life" /\ call.ran \in Passes) =>
        /\ (InScanWindow(call.ran) /\ call.grid.visible) =>
               is_visible_in_cone(TileCenter(call.tile[1], call.tile[2]), LifePos,
                                  call.player.facing, FullCfg(call.ran).range,
                                  FullCfg(call.ran).spread)
        /\ ~InScanWindow(call.ran) => call.grid.visible = call.before.visible

\* after a respawn teleport a pass has run at the grid centre, and the tile,
\* outside the scan windows of both passes, still has the true flag it got at
\* the position the player died at
C22_Witness ==
    /\ call.op = "life" /\ call.ran \in Passes
    /\ call.respawned
    /\ call.grid.visible
    /\ ~InScanWindow("world") /\ ~InScanWindow("light")

(* ------------------ properties of the PostUpdate schedule --------------- *)
\* C23: the contents of grid.field, grid.brightness and the chunk tile colours
\* at the end of a frame do not depend on the order in which PostUpdate runs
\* world.rs::update_visibility and light.rs::update_visibility: the frame
\* leaves the tile as the opposite order leaves it
C23_OrderIndependent ==
    (call.op = "life" /\ call.done = Passes) => call.grid = call.alt

(* --------------------- properties of death and respawn ------------------ *)
\* C24: while is_dead is true no system changes the position, the facing or
\* the stats of the player; is_dead returns to false only in a frame in which
\* Enter or R is just pressed, and the step that clears it resets the position
\* to the grid centre, the facing to Down and health, stamina and food_bar to
\* their maxima; is_dead becomes true only in a frame that starts with
\* health <= 0
C24_DeadIsFrozen ==
    [][call.op = "life" =>
          LET before == call.player
              after == call'.player
              same == /\ after.pos = before.pos
                      /\ after.facing = before.facing
                      /\ after.health = before.health
                      /\ after.stamina = before.stamina
                      /\ after.food_bar = before.food_bar
          IN  /\ (before.is_dead /\ after.is_dead) => same
              /\ (before.is_dead /\ ~after.is_dead) =>
                     /\ call'.new_game
                     /\ after.pos = <<(FullGrid \div 2) * WORLD_TILE_SIZE * 100,
                                      (FullGrid \div 2) * WORLD_TILE_SIZE * 100>>
                     /\ after.facing = "Down"
                     /\ after.health = 100 * TicksPerSecond
                     /\ after.stamina = 100 * TicksPerSecond
                     /\ after.food_bar = 100 * TicksPerSecond
              /\ (~before.is_dead /\ after.is_dead) =>
                     /\ call'.start.health <= 0
                     /\ same]_vars

\* the player died, stayed dead through a whole frame with an arrow key held,
\* and was respawned in the frame that has just ended, in which move_player
\* and energy_system then ran on the respawned player
C24_Witness ==
    /\ call.op = "life" /\ call.done = Passes
    /\ call.dead_frame
    /\ call.start.is_dead /\ ~call.player.is_dead /\ call.new_game
    /\ call.player.pos # TrackSpawn
    /\ call.player.food_bar < FOOD_BAR_MAX * TicksPerSecond

====
